---- MODULE Spec2Model ----
(***************************************************************************)
(* SpotifyService (PKCE revision): OAuth token store, authorization-code   *)
(* callback, token refresh, the Web Playback SDK player lifecycle, and the *)
(* REST calls for playlists and playback.                                  *)
(* The service runs on the browser's single event loop: every action below *)
(* is one synchronous run of service code, from the call or the resumption *)
(* of an await up to the next await or return.                             *)
(***************************************************************************)
EXTENDS Integers, FiniteSets, Sequences, TLC

\* ---------------------------------------------------------------- bounds
MaxInits == 2
MaxLogins == 2
MaxCallbacks == 2
MaxTicks == 1
T0 == 1000000
MaxCalls == 2
MaxEvents == 2
MaxRefreshes == 1
MaxFetches == 1
MaxPlays == 1
MaxControls == 1
MaxAuthCalls == 3
MaxPlayerCalls == 3
MaxPlayerEvents == 3
MaxSeconds == 3
\* setVolume() and toggleMute() calls the page makes in the mute specification
MaxVolumeCalls == 3

\* ------------------------------------------------------------- constants
\* null / undefined (both falsy; the code only tests truthiness)
NULL == 0
\* Date.now() + undefined * 1000
NaN == -1
\* localStorage.setItem(key, undefined) stores the string "undefined"
StrUndefined == -2
\* isTokenExpired: "expired 5 minutes before actual expiration"
SkewMs == 300000
\* the clock advances in steps of the skew window
TickMs == SkewMs

\* cb(this.accessToken || ''): the empty string handed over for a missing token
EmptyString == -3

InitIds == 1..MaxInits
LoginIds == 1..MaxLogins
CbIds == 1..MaxCallbacks
RefreshIds == 1..MaxRefreshes
FetchIds == 1..MaxFetches
PlayIds == 1..MaxPlays
ControlIds == 1..MaxControls

\* token values: the provider answers each request with fresh tokens
CbTok(k) == 10 + k
RefTok(i) == 20 + i
\* refreshAccessToken() called by the page
DirectTok(f) == 30 + f
StoredTok == CbTok(0)

\* expires_in absent from the body
MISSING == NULL

\* A token-endpoint outcome: a 2xx body (which fields it carries), a non-2xx
\* status, or a network error.
OkResponse(a, r, e) ==
    [kind |-> "ok", body |-> [access_token |-> a, refresh_token |-> r, expires_in |-> e]]

TokenResponseList ==
    <<OkResponse(TRUE, TRUE, 300), OkResponse(TRUE, TRUE, 299),
      OkResponse(TRUE, FALSE, 300), OkResponse(FALSE, TRUE, 300),
      OkResponse(TRUE, TRUE, MISSING),
      [kind |-> "status", body |-> NULL], [kind |-> "network", body |-> NULL]>>

TokenResponses == {TokenResponseList[n] : n \in DOMAIN TokenResponseList}

VARIABLES
    accessToken, refreshToken, tokenExpiration,
    player, deviceId, stateCallback, initializationPromise, connectionAttempts,
    localStorage, sessionStorage,
    now, sdkLoaded,
    init, login, cb,
    calls, events, loggedOut,
    rf, pl, play, ctl,
    asked, fetched,
    volume, previousVolume, pending, isMuted, isMuteDisabled, ops

tokVars == <<accessToken, refreshToken, tokenExpiration>>
playerVars == <<player, deviceId, stateCallback, initializationPromise>>
envVars == <<now, sdkLoaded>>
vars == <<accessToken, refreshToken, tokenExpiration,
          player, deviceId, stateCallback, initializationPromise, connectionAttempts,
          localStorage, sessionStorage, now, sdkLoaded, init, login, cb, calls, events, loggedOut,
          rf, pl, play, ctl, asked, fetched,
          volume, previousVolume, pending, isMuted, isMuteDisabled, ops>>
\* the records of the REST, refresh and playback-control calls
apiVars == <<rf, pl, play, ctl>>
\* the SDK player's volume and calls in flight, the service's previousVolume,
\* the record player's mute state and the volume calls made so far
muteVars == <<volume, previousVolume, pending, isMuted, isMuteDisabled, ops>>
\* the answers of the queries and of window.fetch, and the mute path
pureVars == <<asked, fetched, muteVars>>

\* ------------------------------------------------------------ token store
EmptyStorage ==
    [spotify_access_token |-> NULL, spotify_token_expiration |-> NULL,
     spotify_refresh_token |-> NULL, spotify_code_verifier |-> NULL,
     spotify_auth_state |-> NULL, spotify_force_login |-> FALSE,
     spotify_just_logged_out |-> FALSE]

\* an expiry test without the skew window
isTokenExpiredAt_NoSkew(exp, t) ==
    IF exp = NULL \/ exp = NaN THEN TRUE ELSE t > exp

\* an expiry test counting the boundary instant as expired
isTokenExpiredAt_AtBoundary(exp, t) ==
    IF exp = NULL \/ exp = NaN THEN TRUE ELSE t >= exp - SkewMs

\* isTokenExpired(): !tokenExpiration is true for null and NaN
isTokenExpiredAt(exp, t) ==
    IF exp = NULL \/ exp = NaN THEN TRUE ELSE t > exp - SkewMs

isTokenExpired == isTokenExpiredAt(tokenExpiration, now)

isLoggedIn == accessToken # NULL /\ ~isTokenExpired

\* a clearTokens that also removes the force-login flag
ClearedStorage_WithFlag(ls) ==
    [ls EXCEPT !.spotify_access_token = NULL, !.spotify_token_expiration = NULL,
               !.spotify_refresh_token = NULL, !.spotify_code_verifier = NULL,
               !.spotify_auth_state = NULL, !.spotify_force_login = FALSE]

\* clearTokens(): the storage part
ClearedStorage(ls) ==
    [ls EXCEPT !.spotify_access_token = NULL, !.spotify_token_expiration = NULL,
               !.spotify_refresh_token = NULL, !.spotify_code_verifier = NULL,
               !.spotify_auth_state = NULL]

\* expires_in taken as milliseconds
ExpirationTime_NoMs(t, expires_in) ==
    IF expires_in = MISSING THEN NaN ELSE t + expires_in

\* Date.now() + expires_in * 1000
ExpirationTime(t, expires_in) ==
    IF expires_in = MISSING THEN NaN ELSE t + expires_in * 1000

\* what setItem stores for a possibly-undefined value
Stored(v) == IF v = NULL THEN StrUndefined ELSE v

\* ------------------------------------------------------- call records
\* One record per initializePlayer() call.  pc: where the call stands;
\* entry/during/refreshSent/refreshed/firstTerm record what the call saw and
\* did; res, timer, client, connect are the promise the call created, its
\* 15 s timer, the Spotify.Player it constructed and that player's connect();
\* token is what the player's getOAuthToken last handed to the SDK; lost:
\* a not_ready of the player dropped a device id; disconnects: the disconnect() calls made
\* on the player.
IdleInit ==
    [pc |-> "idle", entry |-> "none", during |-> {}, refreshSent |-> FALSE,
     refreshed |-> "none", ret |-> "none", retP |-> NULL, constructed |-> FALSE,
     res |-> "none", timer |-> FALSE, client |-> "none", connect |-> "none",
     firstTerm |-> "none", token |-> NULL, lost |-> FALSE, disconnects |-> 0]

\* One record per login() call: the verifier it generated is its own id l,
\* challenge = l stands for base64url(sha256(verifier l)).
IdleLogin ==
    [pc |-> "idle", caller |-> NULL, challenge |-> NULL, state |-> NULL,
     show_dialog |-> FALSE]


\* One record per handleCallback() call: code and state are the query
\* parameters it was called with.
IdleCb ==
    [pc |-> "idle", code |-> NULL, state |-> NULL, verifier |-> NULL,
     sent |-> FALSE, ret |-> "none", why |-> "none", stale |-> FALSE]

\* One record per refreshAccessToken() call made by the page.
IdleRefresh == [pc |-> "idle", sent |-> FALSE, ret |-> "none"]

\* ------------------------------------------------------------ REST data
\* the id of the synthesized Liked Songs entry
LikedSongsId == -4
\* a playlist object of data.items
Playlist(p) == [id |-> p, type |-> "playlist"]
\* getUserSavedTracks(): the "playlist-like" object
LikedSongs == [id |-> LikedSongsId, type |-> "liked-songs"]
\* item.track.uri of a saved track
Uri(t) == 100 + t

\* A REST outcome: a 2xx with its parsed body (the items), a non-2xx status
\* with the text of its body, or a rejected fetch.  text is the set of
\* statuses the body text names, in digits or in words ("403", "forbidden").
RestOk(b) == [kind |-> "ok", status |-> 200, body |-> b, text |-> {}]
RestStatus(s, t) == [kind |-> "status", status |-> s, body |-> <<>>, text |-> t]
RestNetwork == [kind |-> "network", status |-> NULL, body |-> <<>>, text |-> {}]

\* GET /v1/me/playlists
PlaylistsResponseList ==
    <<RestOk(<<Playlist(1), Playlist(2)>>), RestOk(<<>>),
      RestStatus(401, {}), RestStatus(500, {}), RestNetwork>>

\* GET /v1/me/tracks
TracksResponseList ==
    <<RestOk(<<Uri(1), Uri(2)>>), RestOk(<<>>),
      RestStatus(401, {}), RestStatus(401, {403}), RestStatus(403, {}), RestNetwork>>

\* PUT /v1/me/player/play
PlayResponseList ==
    <<RestOk(<<>>), RestStatus(401, {}), RestStatus(401, {403}),
      RestStatus(403, {}), RestStatus(404, {}), RestStatus(404, {403}), RestNetwork>>

\* One record per getUserPlaylists() call: the requests it sent, the items
\* of the playlists response, how the saved-tracks request ended, whether a
\* 401 was seen, and what the call returned or threw.
IdleFetch ==
    [pc |-> "idle", sentPlaylists |-> FALSE, sentTracks |-> FALSE, items |-> <<>>,
     tracks |-> "none", saw401 |-> FALSE, ret |-> <<>>, threw |-> FALSE]

\* the start-playback request: its device_id parameter and its JSON body
NoPut == [device |-> NULL, context_uri |-> NULL, uris |-> <<>>]

\* `spotify:playlist:${playlistId}`
ContextUri(id) == 200 + id

\* the liked songs started through a context URI (300: the collection's)
LikedSongsRequest_Collection(device, trackUris) ==
    [device |-> device, context_uri |-> 300, uris |-> <<>>]

\* PUT ...?device_id=${this.deviceId} with body { uris: trackUris }
LikedSongsRequest(device, trackUris) ==
    [device |-> device, context_uri |-> NULL, uris |-> trackUris]

\* PUT ...?device_id=${this.deviceId} with body { context_uri }
PlaylistRequest(device, id) ==
    [device |-> device, context_uri |-> ContextUri(id), uris |-> <<>>]

\* One record per playPlaylist() call made through the component's handler:
\* the requests sent, the error thrown (message: the statuses its text
\* names) and the classification the handler showed.
IdlePlay ==
    [pc |-> "idle", id |-> NULL, sentGet |-> FALSE, sentPut |-> FALSE, put |-> NoPut,
     threw |-> FALSE, message |-> {}, shown |-> "none"]

\* One record per playback-control call (togglePlayback, nextTrack,
\* previousTrack, setVolume): the SDK methods it invoked, the volume it
\* passed, whether its catch ran and whether the call threw.
IdleControl ==
    [pc |-> "idle", op |-> "none", sent |-> <<>>, volume |-> NULL,
     caught |-> FALSE, threw |-> FALSE]

\* the last isTokenExpired() / isLoggedIn() asked: the fields and the clock
\* it read, and its answer
NotAsked == [fn |-> "none", token |-> NULL, exp |-> NULL, at |-> NULL, ret |-> FALSE]

\* A fetch outcome: a Response (its status; body "real" as the server sent
\* it) or a rejection.
Responded(s, b) == [kind |-> "response", status |-> s, body |-> b]
Rejected == [kind |-> "rejected", status |-> NULL, body |-> "none"]

\* the last window.fetch call: its URL, what the browser's fetch did and
\* what the caller got
NotFetched == [url |-> [analytics |-> FALSE, event |-> FALSE], real |-> Rejected,
               got |-> Rejected, called |-> FALSE]

\* query parameters of the callback URL
Codes == {NULL, 1}
Forged == MaxLogins + 1
StateParams == {NULL, Forged} \cup LoginIds

\* The constructor: tokens are restored only when both the token and the
\* expiration are stored.  Storage holds nothing, or a token set saved by an
\* earlier page (still valid or already expired, with or without refresh token).
StoredTokenSets ==
    {[spotify_access_token |-> NULL, spotify_token_expiration |-> NULL, spotify_refresh_token |-> NULL]}
    \cup {[spotify_access_token |-> StoredTok, spotify_token_expiration |-> e, spotify_refresh_token |-> r] :
            e \in {T0 + SkewMs, T0 + SkewMs - 1000}, r \in {NULL, StoredTok}}

\* the constructor with the token set t in storage
Restored(t) ==
    /\ localStorage = [EmptyStorage EXCEPT
                          !.spotify_access_token = t.spotify_access_token,
                          !.spotify_token_expiration = t.spotify_token_expiration,
                          !.spotify_refresh_token = t.spotify_refresh_token]
    /\ IF t.spotify_access_token # NULL /\ t.spotify_token_expiration # NULL
       THEN /\ accessToken = t.spotify_access_token
            /\ tokenExpiration = t.spotify_token_expiration
            /\ refreshToken = t.spotify_refresh_token
       ELSE /\ accessToken = NULL
            /\ tokenExpiration = NULL
            /\ refreshToken = NULL

\* new Spotify.Player({ ..., volume: 0.5 }), in hundredths
InitialVolume == 50
\* private previousVolume: number = 0.5
DefaultPreviousVolume == 50

\* nothing called yet, whether or not a player is held: the page has nc calls
\* to make, the SDK ne events to deliver
NothingCalled(nc, ne) ==
    /\ sessionStorage = NULL
    /\ stateCallback = NULL
    /\ initializationPromise = NULL
    /\ connectionAttempts = 0
    /\ init = [i \in InitIds |-> IdleInit]
    /\ login = [l \in LoginIds |-> IdleLogin]
    /\ cb = [k \in CbIds |-> IdleCb]
    /\ rf = [f \in RefreshIds |-> IdleRefresh]
    /\ pl = [q \in FetchIds |-> IdleFetch]
    /\ play = [p \in PlayIds |-> IdlePlay]
    /\ ctl = [c \in ControlIds |-> IdleControl]
    /\ asked = NotAsked
    /\ fetched = NotFetched
    /\ calls = nc
    /\ events = ne
    /\ loggedOut = FALSE
    /\ volume = InitialVolume
    /\ previousVolume = DefaultPreviousVolume
    /\ pending = <<>>
    /\ isMuted = FALSE
    /\ isMuteDisabled = FALSE
    /\ ops = <<>>

\* the service as constructed: no player yet
Fresh(nc, ne) ==
    /\ player = NULL
    /\ deviceId = NULL
    /\ NothingCalled(nc, ne)

Init ==
    /\ \E t \in StoredTokenSets : Restored(t)
    /\ now = T0
    /\ sdkLoaded \in BOOLEAN
    /\ Fresh(MaxCalls, MaxEvents)

\* calls are made in index order; calls and events count what is left of
\* the page's calls and of the SDK's events
NextInit(i) == init[i].pc = "idle" /\ (i > 1 => init[i - 1].pc # "idle")
NextLogin(l) == login[l].pc = "idle" /\ (l > 1 => login[l - 1].pc # "idle")
NextCb(k) == cb[k].pc = "idle" /\ (k > 1 => cb[k - 1].pc # "idle")
NextRefresh(f) == rf[f].pc = "idle" /\ (f > 1 => rf[f - 1].pc # "idle")
NextFetch(q) == pl[q].pc = "idle" /\ (q > 1 => pl[q - 1].pc # "idle")
NextPlay(p) == play[p].pc = "idle" /\ (p > 1 => play[p - 1].pc # "idle")
NextControl(c) == ctl[c].pc = "idle" /\ (c > 1 => ctl[c - 1].pc # "idle")
PageCall == calls > 0 /\ calls' = calls - 1 /\ UNCHANGED events
\* events, token requests and connect() failures of the SDK
SdkEvent == events > 0 /\ events' = events - 1 /\ UNCHANGED calls

\* ------------------------------------------------------------- promises
\* resolve(v): the first call settles the promise, later calls do nothing
Resolve(f, i, v) ==
    IF f[i].res = "pending" THEN [f EXCEPT ![i].res = v] ELSE f

\* the first terminating event the initialization saw
Term(f, i, ev) ==
    IF f[i].firstTerm = "none" THEN [f EXCEPT ![i].firstTerm = ev] ELSE f

\* what the caller of call i has received so far
Result(i) ==
    IF init[i].ret = "false" THEN "false"
    ELSE IF init[i].ret = "promise" THEN init[init[i].retP].res
    ELSE "pending"

Resolved(i) == Result(i) \in {"true", "false"}

\* call i was made and its caller is still waiting
Unresolved(i) == init[i].pc # "idle" /\ ~Resolved(i)

\* ---------------------------------------------------------------- login
\* login() up to its await of generateCodeChallenge: resets the attempt
\* counter and stores the fresh verifier.  ls is the storage it writes to.
LoginBegin(l, caller, ls) ==
    /\ connectionAttempts' = 0
    /\ login' = [login EXCEPT ![l].pc = "hashing", ![l].caller = caller]
    /\ localStorage' = [ls EXCEPT !.spotify_code_verifier = l]

\* login() called by the page
Login(l) ==
    /\ NextLogin(l)
    /\ LoginBegin(l, NULL, localStorage)
    /\ UNCHANGED <<tokVars, playerVars, sessionStorage, envVars, init, cb, loggedOut>>
    /\ UNCHANGED apiVars
    /\ UNCHANGED pureVars
    /\ PageCall

\* login() after the await: stores the state, consumes the force-login flag,
\* falls back to sessionStorage when the verifier is no longer stored, and
\* redirects.  An initializePlayer() awaiting this login then returns false.
LoginFinish(l) ==
    /\ login[l].pc = "hashing"
    /\ LET forceLogin == localStorage.spotify_force_login
           storedVerifier == localStorage.spotify_code_verifier
       IN  /\ localStorage' = [localStorage EXCEPT !.spotify_auth_state = l,
                                                   !.spotify_force_login = FALSE]
           /\ sessionStorage' = IF storedVerifier = NULL THEN l ELSE sessionStorage
           /\ login' = [login EXCEPT ![l].pc = "done", ![l].challenge = l,
                                     ![l].state = l, ![l].show_dialog = forceLogin]
    /\ init' = IF login[l].caller # NULL
               THEN [init EXCEPT ![login[l].caller].pc = "returned",
                                 ![login[l].caller].ret = "false"]
               ELSE init
    /\ UNCHANGED <<tokVars, playerVars, connectionAttempts, envVars, cb, loggedOut>>
    /\ UNCHANGED <<calls, events, apiVars, pureVars>>

\* ------------------------------------------------------- handleCallback
\* the check without its !state test: an absent state equals an absent stored state
StateMatches_NoAbsentTest(state, storedState) == state = storedState

\* the anti-forgery check: if (!state || state !== storedState) return false
StateMatches(state, storedState) == state # NULL /\ state = storedState

\* handleCallback() up to its await of the token request
HandleCallback(k, code, state) ==
    /\ NextCb(k)
    /\ LET storedState == localStorage.spotify_auth_state
           codeVerifier == IF localStorage.spotify_code_verifier # NULL
                           THEN localStorage.spotify_code_verifier
                           ELSE sessionStorage
           called == [cb EXCEPT ![k].code = code, ![k].state = state]
       IN  IF ~StateMatches(state, storedState)
           THEN /\ cb' = [called EXCEPT ![k].pc = "returned", ![k].ret = "false",
                                        ![k].why = "state_mismatch"]
                /\ UNCHANGED localStorage
           ELSE /\ localStorage' = [localStorage EXCEPT !.spotify_just_logged_out = FALSE]
                /\ IF code # NULL /\ codeVerifier # NULL
                   THEN cb' = [called EXCEPT ![k].pc = "exchanging",
                                             ![k].verifier = codeVerifier,
                                             ![k].sent = TRUE]
                   ELSE cb' = [called EXCEPT ![k].pc = "returned", ![k].ret = "false",
                                             ![k].why = "no_code_or_verifier"]
    /\ UNCHANGED <<tokVars, playerVars, connectionAttempts, sessionStorage, envVars,
                   init, login, loggedOut>>
    /\ UNCHANGED apiVars
    /\ UNCHANGED pureVars
    /\ PageCall

\* a callback that leaves the verifier and the state in storage
CleanUp_Keeps(ls) == ls

\* Clean up code verifier and state
CleanUp(ls) == [ls EXCEPT !.spotify_code_verifier = NULL, !.spotify_auth_state = NULL]

\* the token response arrives: !ok or a rejected fetch is caught and gives
\* false; a 2xx body is stored field by field, whatever fields it carries
CallbackResponse(k, r) ==
    /\ cb[k].pc = "exchanging"
    /\ IF r.kind = "ok"
       THEN LET access == IF r.body.access_token THEN CbTok(k) ELSE NULL
                refresh == IF r.body.refresh_token THEN CbTok(k) ELSE NULL
                expirationTime == ExpirationTime(now, r.body.expires_in)
            IN  /\ accessToken' = access
                /\ refreshToken' = refresh
                /\ tokenExpiration' = expirationTime
                /\ localStorage' =
                     CleanUp([localStorage EXCEPT
                        !.spotify_access_token = Stored(access),
                        !.spotify_token_expiration = expirationTime,
                        !.spotify_refresh_token = IF refresh # NULL THEN refresh ELSE @])
                /\ cb' = [cb EXCEPT ![k].pc = "returned", ![k].ret = "true",
                                    ![k].why = "exchanged"]
                /\ loggedOut' = IF cb[k].stale THEN loggedOut ELSE FALSE
       ELSE /\ cb' = [cb EXCEPT ![k].pc = "returned", ![k].ret = "false",
                                ![k].why = "exchange_failed"]
            /\ UNCHANGED <<tokVars, localStorage, loggedOut>>
    /\ UNCHANGED <<playerVars, connectionAttempts, sessionStorage, envVars, init, login>>
    /\ UNCHANGED <<calls, events, apiVars, pureVars>>

\* --------------------------------------------------- refreshAccessToken
\* a refresh that takes the provider's token value whether or not the
\* response carries a refresh token
RotatedRefreshToken_Always(old, r, tok) == tok

\* if (data.refresh_token) { this.refreshToken = data.refresh_token; setItem }
RotatedRefreshToken(old, r, tok) == IF r.body.refresh_token THEN tok ELSE old

\* Lines 390-405: the tokens of a 2xx body are put in the fields and in
\* storage; tok is the token value the provider issued.
StoreRefreshed(r, tok) ==
    LET access == IF r.body.access_token THEN tok ELSE NULL
        expirationTime == ExpirationTime(now, r.body.expires_in)
    IN  /\ accessToken' = access
        /\ refreshToken' = RotatedRefreshToken(refreshToken, r, tok)
        /\ tokenExpiration' = expirationTime
        /\ localStorage' =
             [localStorage EXCEPT
                !.spotify_refresh_token = RotatedRefreshToken(@, r, tok),
                !.spotify_access_token = Stored(access),
                !.spotify_token_expiration = expirationTime]

\* refreshAccessToken() called by the page, up to its await of the request
RefreshAccessToken(f) ==
    /\ NextRefresh(f)
    /\ IF refreshToken = NULL
       THEN rf' = [rf EXCEPT ![f].pc = "returned", ![f].ret = "false"]
       ELSE rf' = [rf EXCEPT ![f].pc = "refreshing", ![f].sent = TRUE]
    /\ UNCHANGED <<tokVars, playerVars, connectionAttempts, localStorage, sessionStorage,
                   envVars, init, login, cb, loggedOut, pl, play, ctl>>
    /\ UNCHANGED pureVars
    /\ PageCall

\* ... and after it: true with the tokens stored, false from the catch
RefreshAccessTokenResponse(f, r) ==
    /\ rf[f].pc = "refreshing"
    /\ IF r.kind = "ok"
       THEN /\ StoreRefreshed(r, DirectTok(f))
            /\ rf' = [rf EXCEPT ![f].pc = "returned", ![f].ret = "true"]
       ELSE /\ rf' = [rf EXCEPT ![f].pc = "returned", ![f].ret = "false"]
            /\ UNCHANGED <<tokVars, localStorage>>
    /\ UNCHANGED <<playerVars, connectionAttempts, sessionStorage, envVars,
                   init, login, cb, loggedOut, pl, play, ctl>>
    /\ UNCHANGED <<calls, events, pureVars>>

\* ------------------------------------------------------ initializePlayer
\* the guard at the top: a call returns the promise in the field when one is there
GuardHit == initializationPromise # NULL

\* Lines 444-566: count the attempt, create the promise and, when the SDK is
\* loaded, the Spotify.Player with its listeners, the 15 s timer and connect().
\* When window.Spotify is absent the executor nulls the field and resolves
\* false, and the assignment of the new promise to the field follows it.
ConstructPlayer(i, base) ==
    /\ connectionAttempts' = connectionAttempts + 1
    /\ initializationPromise' = i
    /\ IF ~sdkLoaded
       THEN /\ init' = [base EXCEPT ![i].pc = "returned", ![i].ret = "promise",
                                    ![i].retP = i, ![i].res = "false"]
            /\ UNCHANGED <<player, stateCallback>>
       ELSE /\ init' = [base EXCEPT ![i].pc = "returned", ![i].ret = "promise",
                                    ![i].retP = i, ![i].res = "pending",
                                    ![i].constructed = TRUE, ![i].timer = TRUE,
                                    ![i].client = "live", ![i].connect = "pending"]
            /\ player' = i
            /\ stateCallback' = i

\* clearTokens(); await this.login(); -- the failure path of initializePlayer
ClearAndLogin(i, base) ==
    /\ \E l \in LoginIds :
        /\ NextLogin(l)
        /\ LoginBegin(l, i, ClearedStorage(localStorage))
    /\ accessToken' = NULL
    /\ refreshToken' = NULL
    /\ tokenExpiration' = NULL
    /\ init' = [base EXCEPT ![i].pc = "login"]

\* initializePlayer() up to its first await or its return
InitializePlayer(i) ==
    /\ NextInit(i)
    /\ LET during == {j \in InitIds : Unresolved(j)}
           entry == IF isTokenExpired
                    THEN (IF refreshToken # NULL THEN "expired_rt" ELSE "expired_nort")
                    ELSE (IF accessToken # NULL THEN "valid" ELSE "missing")
       IN  IF GuardHit
           THEN /\ init' = [init EXCEPT ![i].pc = "returned", ![i].entry = "shared",
                                        ![i].during = during, ![i].ret = "promise",
                                        ![i].retP = initializationPromise]
                /\ UNCHANGED <<tokVars, playerVars, connectionAttempts, localStorage, login>>
           ELSE IF isTokenExpired
           THEN IF refreshToken # NULL
                THEN /\ init' = [init EXCEPT ![i].pc = "refreshing", ![i].entry = entry,
                                             ![i].during = during, ![i].refreshSent = TRUE,
                                             ![i].refreshed = "pending"]
                     /\ UNCHANGED <<tokVars, playerVars, connectionAttempts, localStorage, login>>
                ELSE /\ ClearAndLogin(i, [init EXCEPT ![i].entry = entry, ![i].during = during])
                     /\ UNCHANGED playerVars
           ELSE /\ ConstructPlayer(i, [init EXCEPT ![i].entry = entry, ![i].during = during])
                /\ UNCHANGED <<tokVars, deviceId, localStorage, login>>
    /\ UNCHANGED <<sessionStorage, envVars, cb, loggedOut>>
    /\ UNCHANGED apiVars
    /\ UNCHANGED pureVars
    /\ PageCall

\* the refresh response arrives in refreshAccessToken(), and initializePlayer
\* goes on with its result: construct on true, clear and log in on false
RefreshResponse(i, r) ==
    /\ init[i].pc = "refreshing"
    /\ IF r.kind = "ok"
       THEN /\ StoreRefreshed(r, RefTok(i))
            /\ ConstructPlayer(i, [init EXCEPT ![i].refreshed = "ok"])
            /\ UNCHANGED <<deviceId, login>>
       ELSE /\ ClearAndLogin(i, [init EXCEPT ![i].refreshed = "failed"])
            /\ UNCHANGED playerVars
    /\ UNCHANGED <<sessionStorage, envVars, cb, loggedOut>>
    /\ UNCHANGED <<calls, events, apiVars, pureVars>>

\* ------------------------------------------------- SDK events and timer
\* The listeners stay registered on the player object they were added to, so
\* a player that logout() disconnected can still deliver an event.
Emits(i) == init[i].client # "none"

\* what the error listeners, the connect() handlers and the timer share:
\* clearTimeout (a no-op for the timer itself), null the guard, resolve(false)
FailInit(f, i, ev) ==
    Resolve([Term(f, i, ev) EXCEPT ![i].timer = FALSE], i, "false")

\* setTimeout callback, 15 s after construction
InitTimeout(i) ==
    /\ init[i].timer
    /\ init' = FailInit(init, i, "timeout")
    /\ initializationPromise' = NULL
    /\ UNCHANGED <<tokVars, player, deviceId, stateCallback, connectionAttempts,
                   localStorage, sessionStorage, envVars, login, cb, loggedOut>>
    /\ UNCHANGED <<calls, events, apiVars, pureVars>>

InitializationError(i) ==
    /\ Emits(i)
    /\ init' = FailInit(init, i, "initialization_error")
    /\ initializationPromise' = NULL
    /\ UNCHANGED <<tokVars, player, deviceId, stateCallback, connectionAttempts,
                   localStorage, sessionStorage, envVars, login, cb, loggedOut>>
    /\ UNCHANGED apiVars
    /\ UNCHANGED pureVars
    /\ SdkEvent

AuthenticationError(i) ==
    /\ Emits(i)
    /\ init' = FailInit(init, i, "authentication_error")
    /\ accessToken' = NULL
    /\ refreshToken' = NULL
    /\ tokenExpiration' = NULL
    /\ localStorage' = ClearedStorage(localStorage)
    /\ initializationPromise' = NULL
    /\ UNCHANGED <<player, deviceId, stateCallback, connectionAttempts,
                   sessionStorage, envVars, login, cb, loggedOut>>
    /\ UNCHANGED apiVars
    /\ UNCHANGED pureVars
    /\ SdkEvent

\* the listener resolving as the ready listener does
OnAccountError_ResolvesTrue(f, i) ==
    Resolve([Term(f, i, "account_error") EXCEPT ![i].timer = FALSE], i, "true")

\* the listener without its clearTimeout
OnAccountError_KeepsTimer(f, i) ==
    Resolve(Term(f, i, "account_error"), i, "false")

\* the account_error listener
OnAccountError(f, i) == FailInit(f, i, "account_error")

AccountError(i) ==
    /\ Emits(i)
    /\ init' = OnAccountError(init, i)
    /\ initializationPromise' = NULL
    /\ UNCHANGED <<tokVars, player, deviceId, stateCallback, connectionAttempts,
                   localStorage, sessionStorage, envVars, login, cb, loggedOut>>
    /\ UNCHANGED apiVars
    /\ UNCHANGED pureVars
    /\ SdkEvent

Ready(i) ==
    /\ Emits(i)
    /\ deviceId' = i
    /\ init' = Resolve([Term(init, i, "ready") EXCEPT ![i].timer = FALSE], i, "true")
    /\ initializationPromise' = NULL
    /\ connectionAttempts' = 0
    /\ UNCHANGED <<tokVars, player, stateCallback, localStorage, sessionStorage,
                   envVars, login, cb, loggedOut>>
    /\ UNCHANGED apiVars
    /\ UNCHANGED pureVars
    /\ SdkEvent

\* a not_ready listener that fails the initialization as the error listeners do
OnNotReady_FailsInit(f, i) ==
    FailInit([f EXCEPT ![i].lost = @ \/ deviceId # NULL], i, "not_ready")

\* the not_ready listener: it logs, and the device id is dropped
OnNotReady(f, i) == [f EXCEPT ![i].lost = @ \/ deviceId # NULL]

NotReady(i) ==
    /\ Emits(i)
    /\ deviceId' = NULL
    /\ init' = OnNotReady(init, i)
    /\ UNCHANGED <<tokVars, player, stateCallback, initializationPromise,
                   connectionAttempts, localStorage, sessionStorage, envVars,
                   login, cb, loggedOut>>
    /\ UNCHANGED apiVars
    /\ UNCHANGED pureVars
    /\ SdkEvent

\* connect() settles with false or rejects: the init fails.  (connect()
\* resolving true runs no service code: `if (!success)` is skipped.)
ConnectSettles(i, outcome) ==
    /\ init[i].connect = "pending"
    /\ init' = FailInit([init EXCEPT ![i].connect = "failed"], i, outcome)
    /\ initializationPromise' = NULL
    /\ UNCHANGED <<tokVars, player, deviceId, stateCallback, connectionAttempts,
                   localStorage, sessionStorage, envVars, login, cb, loggedOut>>
    /\ UNCHANGED apiVars
    /\ UNCHANGED pureVars
    /\ SdkEvent

\* this.accessToken || ''
TokenOrEmpty(t) == IF t # NULL THEN t ELSE EmptyString

\* the SDK asks for a token: an expired token clears the tokens and resolves
\* false (timer and guard untouched); otherwise cb is called with the token
GetOAuthToken(i) ==
    /\ Emits(i)
    /\ IF isTokenExpired
       THEN /\ accessToken' = NULL
            /\ refreshToken' = NULL
            /\ tokenExpiration' = NULL
            /\ localStorage' = ClearedStorage(localStorage)
            /\ init' = Resolve(init, i, "false")
       ELSE /\ init' = [init EXCEPT ![i].token = TokenOrEmpty(accessToken)]
            /\ UNCHANGED <<tokVars, localStorage>>
    /\ UNCHANGED <<playerVars, connectionAttempts, sessionStorage, envVars,
                   login, cb, loggedOut>>
    /\ UNCHANGED apiVars
    /\ UNCHANGED pureVars
    /\ SdkEvent

\* --------------------------------------------------------------- logout
\* a logout that also cancels the pending timer of the player it disconnects
Disconnected_ClearsTimer(f) ==
    IF player # NULL
    THEN [f EXCEPT ![player].client = "disconnected", ![player].timer = FALSE,
                   ![player].disconnects = @ + 1]
    ELSE f

\* a logout that calls disconnect() a second time
Disconnected_Twice(f) ==
    IF player # NULL
    THEN [f EXCEPT ![player].client = "disconnected", ![player].disconnects = @ + 2]
    ELSE f

\* this.player.disconnect(); this.player = null
Disconnected(f) ==
    IF player # NULL
    THEN [f EXCEPT ![player].client = "disconnected", ![player].disconnects = @ + 1]
    ELSE f

\* logout(): what it does to the fields, the player and the storage
LogoutEffects ==
    /\ accessToken' = NULL
    /\ refreshToken' = NULL
    /\ tokenExpiration' = NULL
    /\ init' = Disconnected(init)
    /\ player' = NULL
    /\ deviceId' = NULL
    /\ initializationPromise' = NULL
    /\ connectionAttempts' = 0
    /\ localStorage' = [ClearedStorage(localStorage) EXCEPT
                           !.spotify_force_login = TRUE,
                           !.spotify_just_logged_out = TRUE]
    /\ cb' = [k \in CbIds |-> IF cb[k].pc = "exchanging"
                              THEN [cb[k] EXCEPT !.stale = TRUE] ELSE cb[k]]
    /\ loggedOut' = TRUE

\* logout() called by the page
Logout ==
    /\ LogoutEffects
    /\ UNCHANGED <<stateCallback, sessionStorage, envVars, login>>
    /\ UNCHANGED apiVars
    /\ UNCHANGED pureVars
    /\ PageCall

\* ----------------------------------------------------- getUserPlaylists
\* the login check of the REST calls: !this.accessToken || !this.isLoggedIn()
NotLoggedIn == accessToken = NULL \/ ~isLoggedIn

\* the Liked Songs entry put after the playlists
WithLikedSongs_Appended(have, items) ==
    IF have THEN items \o <<LikedSongs>> ELSE items

\* likedSongs ? [likedSongs, ...data.items] : data.items
WithLikedSongs(have, items) ==
    IF have THEN <<LikedSongs>> \o items ELSE items

\* getUserPlaylists() up to its await of the playlists request
GetUserPlaylists(q) ==
    /\ NextFetch(q)
    /\ IF NotLoggedIn
       THEN pl' = [pl EXCEPT ![q].pc = "returned", ![q].ret = <<>>]
       ELSE pl' = [pl EXCEPT ![q].pc = "playlists", ![q].sentPlaylists = TRUE]
    /\ UNCHANGED <<tokVars, playerVars, connectionAttempts, localStorage, sessionStorage,
                   envVars, init, login, cb, loggedOut, rf, play, ctl>>
    /\ UNCHANGED pureVars
    /\ PageCall

\* The playlists response arrives.  401: clearTokens, []; any other failure
\* is caught, []; 2xx: getUserSavedTracks() is entered, which returns null at
\* once when not logged in and otherwise sends the saved-tracks request.
PlaylistsResponse(q, r) ==
    /\ pl[q].pc = "playlists"
    /\ IF r.kind = "ok"
       THEN /\ IF NotLoggedIn
               THEN pl' = [pl EXCEPT ![q].pc = "returned", ![q].items = r.body,
                                     ![q].ret = WithLikedSongs(FALSE, r.body)]
               ELSE pl' = [pl EXCEPT ![q].pc = "tracks", ![q].items = r.body,
                                     ![q].sentTracks = TRUE]
            /\ UNCHANGED <<tokVars, localStorage>>
       ELSE IF r.status = 401
       THEN /\ accessToken' = NULL
            /\ refreshToken' = NULL
            /\ tokenExpiration' = NULL
            /\ localStorage' = ClearedStorage(localStorage)
            /\ pl' = [pl EXCEPT ![q].pc = "returned", ![q].saw401 = TRUE, ![q].ret = <<>>]
       ELSE /\ pl' = [pl EXCEPT ![q].pc = "returned", ![q].ret = <<>>]
            /\ UNCHANGED <<tokVars, localStorage>>
    /\ UNCHANGED <<playerVars, connectionAttempts, sessionStorage, envVars,
                   init, login, cb, loggedOut, rf, play, ctl>>
    /\ UNCHANGED <<calls, events, pureVars>>

\* The saved-tracks response arrives in getUserSavedTracks(), and
\* getUserPlaylists() returns: the Liked Songs object on 2xx; null on a 401
\* (after clearTokens) and on any other failure.
SavedTracksResponse(q, r) ==
    /\ pl[q].pc = "tracks"
    /\ IF r.kind = "ok"
       THEN /\ pl' = [pl EXCEPT ![q].pc = "returned", ![q].tracks = "ok",
                                ![q].ret = WithLikedSongs(TRUE, pl[q].items)]
            /\ UNCHANGED <<tokVars, localStorage>>
       ELSE IF r.status = 401
       THEN /\ accessToken' = NULL
            /\ refreshToken' = NULL
            /\ tokenExpiration' = NULL
            /\ localStorage' = ClearedStorage(localStorage)
            /\ pl' = [pl EXCEPT ![q].pc = "returned", ![q].tracks = "401",
                                ![q].saw401 = TRUE,
                                ![q].ret = WithLikedSongs(FALSE, pl[q].items)]
       ELSE /\ pl' = [pl EXCEPT ![q].pc = "returned", ![q].tracks = "failed",
                                ![q].ret = WithLikedSongs(FALSE, pl[q].items)]
            /\ UNCHANGED <<tokVars, localStorage>>
    /\ UNCHANGED <<playerVars, connectionAttempts, sessionStorage, envVars,
                   init, login, cb, loggedOut, rf, play, ctl>>
    /\ UNCHANGED <<calls, events, pureVars>>

\* --------------------------------------------------------- playPlaylist
\* ids the page asks to play: the Liked Songs entry or a playlist
PlayableIds == {LikedSongsId, 1}

\* a message made of the body text alone
Message_NoStatus(r) == IF r.kind = "status" THEN r.text ELSE {}

\* what the thrown error's message names: `... ${status} ${errorText}`; a
\* rejected fetch carries no status
Message(r) == IF r.kind = "status" THEN {r.status} \cup r.text ELSE {}

\* the component's catch: the first test that matches the message decides
Classify(m) ==
    IF 403 \in m THEN "premium_required"
    ELSE IF 404 \in m THEN "not_found"
    ELSE IF 400 \in m THEN "bad_request"
    ELSE IF 401 \in m THEN "session_expired"
    ELSE "generic"

\* a playPlaylist that never takes the early return
NoActiveDevice_Never == FALSE

\* if (!this.deviceId) return
NoActiveDevice == deviceId = NULL

\* a track fetch taken to have tracks whatever it returned
HasTracks_Always(items) == TRUE

\* tracksData.items && tracksData.items.length > 0
HasTracks(items) == Len(items) > 0

\* playPlaylist(), called by the component's handler, up to its first await
PlayPlaylist(p, id) ==
    /\ NextPlay(p)
    /\ IF NoActiveDevice
       THEN play' = [play EXCEPT ![p].pc = "returned", ![p].id = id]
       ELSE IF id = LikedSongsId
       THEN play' = [play EXCEPT ![p].pc = "tracks", ![p].id = id, ![p].sentGet = TRUE]
       ELSE play' = [play EXCEPT ![p].pc = "put", ![p].id = id, ![p].sentPut = TRUE,
                                 ![p].put = PlaylistRequest(deviceId, id)]
    /\ UNCHANGED <<tokVars, playerVars, connectionAttempts, localStorage, sessionStorage,
                   envVars, init, login, cb, loggedOut, rf, pl, ctl>>
    /\ UNCHANGED pureVars
    /\ PageCall

\* playPlaylist throws; the component's catch classifies the error and, for
\* an expired session, calls logout()
Thrown(p, r) ==
    LET m == Message(r)
        shown == Classify(m)
    IN  /\ play' = [play EXCEPT ![p].pc = "returned", ![p].threw = TRUE,
                                ![p].message = m, ![p].shown = shown]
        /\ IF shown = "session_expired"
           THEN /\ LogoutEffects
                /\ UNCHANGED stateCallback
           ELSE UNCHANGED <<tokVars, playerVars, connectionAttempts, localStorage,
                            init, cb, loggedOut>>

\* the liked-songs track fetch answers: with tracks, the PUT with their
\* uris is sent; with none, nothing more happens; not ok, an error is thrown
PlayTracksResponse(p, r) ==
    /\ play[p].pc = "tracks"
    /\ IF r.kind = "ok"
       THEN /\ IF HasTracks(r.body)
               THEN play' = [play EXCEPT ![p].pc = "put", ![p].sentPut = TRUE,
                                         ![p].put = LikedSongsRequest(deviceId, r.body)]
               ELSE play' = [play EXCEPT ![p].pc = "returned"]
            /\ UNCHANGED <<tokVars, playerVars, connectionAttempts, localStorage,
                           init, cb, loggedOut>>
       ELSE Thrown(p, r)
    /\ UNCHANGED <<sessionStorage, envVars, login, rf, pl, ctl>>
    /\ UNCHANGED <<calls, events, pureVars>>

\* the start-playback request answers
PlayPutResponse(p, r) ==
    /\ play[p].pc = "put"
    /\ IF r.kind = "ok"
       THEN /\ play' = [play EXCEPT ![p].pc = "returned"]
            /\ UNCHANGED <<tokVars, playerVars, connectionAttempts, localStorage,
                           init, cb, loggedOut>>
       ELSE Thrown(p, r)
    /\ UNCHANGED <<sessionStorage, envVars, login, rf, pl, ctl>>
    /\ UNCHANGED <<calls, events, pureVars>>

\* ----------------------------------------------------- playback controls
\* if (!this.player) return
NoPlayer == player = NULL

\* a catch that throws the error on to the caller
Settled_Rethrows(rec, rejected) ==
    [rec EXCEPT !.pc = "returned", !.threw = rejected]

\* the end of a control call: catch (err) { console.error(...) } when the
\* awaited SDK call rejected or threw
Settled(rec, rejected) ==
    [rec EXCEPT !.pc = "returned", !.caught = rejected]

\* Math.max(0, Math.min(1, volumePercent)), in hundredths
Clamp(v) == IF v < 0 THEN 0 ELSE IF v > 100 THEN 100 ELSE v

\* volumes the page passes: below the range, inside it, above it
VolumeInputs == {-50, 50, 150}

\* what getCurrentState() settles with
CurrentStates == {"paused", "playing", "null", "rejected"}

\* a control call up to its await: returns at once without a player, else
\* invokes the SDK method m and waits at pc
Invoke(c, op, m, pc, v) ==
    /\ IF NoPlayer
       THEN ctl' = [ctl EXCEPT ![c].pc = "returned", ![c].op = op]
       ELSE ctl' = [ctl EXCEPT ![c].pc = pc, ![c].op = op, ![c].sent = <<m>>,
                               ![c].volume = v]
    /\ UNCHANGED <<tokVars, playerVars, connectionAttempts, localStorage, sessionStorage,
                   envVars, init, login, cb, loggedOut, rf, pl, play>>
    /\ UNCHANGED pureVars
    /\ PageCall

togglePlayback(c) ==
    /\ NextControl(c)
    /\ Invoke(c, "togglePlayback", "getCurrentState", "state", NULL)

nextTrack(c) ==
    /\ NextControl(c)
    /\ Invoke(c, "nextTrack", "nextTrack", "command", NULL)

previousTrack(c) ==
    /\ NextControl(c)
    /\ Invoke(c, "previousTrack", "previousTrack", "command", NULL)

setVolume(c, volumePercent) ==
    /\ NextControl(c)
    /\ Invoke(c, "setVolume", "setVolume", "command", Clamp(volumePercent))

\* getCurrentState() settles in togglePlayback: resume() when paused, else
\* pause(); a rejection, or a player that logout() nulled meanwhile
\* (this.player.resume on null), ends in the catch
CurrentStateSettles(c, state) ==
    /\ ctl[c].pc = "state"
    /\ IF state = "rejected" \/ player = NULL
       THEN ctl' = [ctl EXCEPT ![c] = Settled(@, TRUE)]
       ELSE ctl' = [ctl EXCEPT ![c].pc = "command",
                               ![c].sent = Append(@, IF state = "paused"
                                                     THEN "resume" ELSE "pause")]
    /\ UNCHANGED <<tokVars, playerVars, connectionAttempts, localStorage, sessionStorage,
                   envVars, init, login, cb, loggedOut, rf, pl, play>>
    /\ UNCHANGED <<calls, events, pureVars>>

\* the awaited SDK command settles and the control call returns
CommandSettles(c, rejected) ==
    /\ ctl[c].pc = "command"
    /\ ctl' = [ctl EXCEPT ![c] = Settled(@, rejected)]
    /\ UNCHANGED <<tokVars, playerVars, connectionAttempts, localStorage, sessionStorage,
                   envVars, init, login, cb, loggedOut, rf, pl, play>>
    /\ UNCHANGED <<calls, events, pureVars>>

\* ---------------------------------------------------------- environment
Tick ==
    /\ now < T0 + MaxTicks * TickMs
    /\ now' = now + TickMs
    /\ UNCHANGED <<tokVars, playerVars, connectionAttempts, localStorage,
                   sessionStorage, sdkLoaded, init, login, cb, loggedOut>>
    /\ UNCHANGED <<calls, events, apiVars, pureVars>>

\* the SDK script finishes loading: window.Spotify is defined
SdkLoads ==
    /\ ~sdkLoaded
    /\ sdkLoaded' = TRUE
    /\ UNCHANGED <<tokVars, playerVars, connectionAttempts, localStorage,
                   sessionStorage, now, init, login, cb, loggedOut>>
    /\ UNCHANGED <<calls, events, apiVars, pureVars>>

Next ==
    \/ \E l \in LoginIds : Login(l)
    \/ \E l \in LoginIds : LoginFinish(l)
    \/ \E k \in CbIds, code \in Codes, state \in StateParams : HandleCallback(k, code, state)
    \/ \E k \in CbIds, n \in DOMAIN TokenResponseList : CallbackResponse(k, TokenResponseList[n])
    \/ \E i \in InitIds : InitializePlayer(i)
    \/ \E i \in InitIds, n \in DOMAIN TokenResponseList : RefreshResponse(i, TokenResponseList[n])
    \/ \E f \in RefreshIds : RefreshAccessToken(f)
    \/ \E f \in RefreshIds, n \in DOMAIN TokenResponseList :
          RefreshAccessTokenResponse(f, TokenResponseList[n])
    \/ \E q \in FetchIds : GetUserPlaylists(q)
    \/ \E q \in FetchIds, n \in DOMAIN PlaylistsResponseList :
          PlaylistsResponse(q, PlaylistsResponseList[n])
    \/ \E q \in FetchIds, n \in DOMAIN TracksResponseList :
          SavedTracksResponse(q, TracksResponseList[n])
    \/ \E p \in PlayIds, id \in PlayableIds : PlayPlaylist(p, id)
    \/ \E p \in PlayIds, n \in DOMAIN TracksResponseList :
          PlayTracksResponse(p, TracksResponseList[n])
    \/ \E p \in PlayIds, n \in DOMAIN PlayResponseList :
          PlayPutResponse(p, PlayResponseList[n])
    \/ \E i \in InitIds : InitTimeout(i)
    \/ \E i \in InitIds : InitializationError(i)
    \/ \E i \in InitIds : AuthenticationError(i)
    \/ \E i \in InitIds : AccountError(i)
    \/ \E i \in InitIds : Ready(i)
    \/ \E i \in InitIds : NotReady(i)
    \/ \E i \in InitIds, o \in {"connect_false", "connect_reject"} : ConnectSettles(i, o)
    \/ \E i \in InitIds : GetOAuthToken(i)
    \/ \E c \in ControlIds : togglePlayback(c)
    \/ \E c \in ControlIds : nextTrack(c)
    \/ \E c \in ControlIds : previousTrack(c)
    \/ \E c \in ControlIds, v \in VolumeInputs : setVolume(c, v)
    \/ \E c \in ControlIds, st \in CurrentStates : CurrentStateSettles(c, st)
    \/ \E c \in ControlIds, rejected \in BOOLEAN : CommandSettles(c, rejected)
    \/ Logout
    \/ Tick
    \/ SdkLoads

Spec == Init /\ [][Next]_vars

\* A timer set with setTimeout fires unless clearTimeout cancels it.
FairSpec == Spec /\ \A i \in InitIds : WF_vars(InitTimeout(i))

\* -------------------------------------------------- the player lifecycle
\* initializePlayer(), the SDK's events and logout() alone, the SDK
\* delivering up to MaxPlayerEvents events.
PlayerInit ==
    /\ \E t \in StoredTokenSets : Restored(t)
    /\ now = T0
    /\ sdkLoaded \in BOOLEAN
    /\ Fresh(MaxPlayerCalls, MaxPlayerEvents)

PlayerNext ==
    \/ \E i \in InitIds : InitializePlayer(i)
    \/ \E i \in InitIds, n \in DOMAIN TokenResponseList : RefreshResponse(i, TokenResponseList[n])
    \/ \E l \in LoginIds : LoginFinish(l)
    \/ \E i \in InitIds : InitTimeout(i)
    \/ \E i \in InitIds : InitializationError(i)
    \/ \E i \in InitIds : AuthenticationError(i)
    \/ \E i \in InitIds : AccountError(i)
    \/ \E i \in InitIds : Ready(i)
    \/ \E i \in InitIds : NotReady(i)
    \/ \E i \in InitIds, o \in {"connect_false", "connect_reject"} : ConnectSettles(i, o)
    \/ \E i \in InitIds : GetOAuthToken(i)
    \/ Logout
    \/ Tick
    \/ SdkLoads

PlayerSpec == PlayerInit /\ [][PlayerNext]_vars

\* ------------------------------------------- login, callback and logout
\* The authorization calls alone, the page making up to MaxAuthCalls of them.
AuthInit ==
    /\ \E t \in StoredTokenSets : Restored(t)
    /\ now = T0
    /\ sdkLoaded = FALSE
    /\ Fresh(MaxAuthCalls, 0)

AuthNext ==
    \/ \E l \in LoginIds : Login(l)
    \/ \E l \in LoginIds : LoginFinish(l)
    \/ \E k \in CbIds, code \in Codes, state \in StateParams : HandleCallback(k, code, state)
    \/ \E k \in CbIds, n \in DOMAIN TokenResponseList : CallbackResponse(k, TokenResponseList[n])
    \/ Logout

AuthSpec == AuthInit /\ [][AuthNext]_vars

\* ------------------------------------------------- queries and window.fetch
\* expirations around the skew boundary, as offsets from T0
ExpiryOffsets == {SkewMs - 1000, SkewMs, SkewMs + 1000, SkewMs + 2000, SkewMs + 3000}

\* what an earlier page left in storage: nothing, an expiration alone, or
\* a token with an expiration (a number, or the "NaN" that parseInt reads
\* as NaN)
QueryTokenSets ==
    {[spotify_access_token |-> NULL, spotify_token_expiration |-> e, spotify_refresh_token |-> NULL] :
        e \in {NULL, T0 + SkewMs}}
    \cup {[spotify_access_token |-> StoredTok, spotify_token_expiration |-> e, spotify_refresh_token |-> NULL] :
            e \in {NaN} \cup {T0 + d : d \in ExpiryOffsets}}

\* isTokenExpired() called
AskTokenExpired ==
    /\ asked' = [fn |-> "isTokenExpired", token |-> accessToken, exp |-> tokenExpiration,
                 at |-> now, ret |-> isTokenExpired]
    /\ UNCHANGED <<tokVars, playerVars, connectionAttempts, localStorage, sessionStorage,
                   envVars, init, login, cb, loggedOut, apiVars, calls, events, fetched, muteVars>>

\* isLoggedIn() called
AskLoggedIn ==
    /\ asked' = [fn |-> "isLoggedIn", token |-> accessToken, exp |-> tokenExpiration,
                 at |-> now, ret |-> isLoggedIn]
    /\ UNCHANGED <<tokVars, playerVars, connectionAttempts, localStorage, sessionStorage,
                   envVars, init, login, cb, loggedOut, apiVars, calls, events, fetched, muteVars>>

\* one second passes
ClockSecond ==
    /\ now < T0 + MaxSeconds * 1000
    /\ now' = now + 1000
    /\ UNCHANGED <<tokVars, playerVars, connectionAttempts, localStorage, sessionStorage,
                   sdkLoaded, init, login, cb, loggedOut, apiVars, calls, events, pureVars>>

\* A URL is the pair of substring tests the wrappers apply to it:
\* url.includes('cpapi.spotify.com') and url.includes('event').
Urls == [analytics : BOOLEAN, event : BOOLEAN]

\* what the browser's fetch does with a request
RealStatuses == {200, 400, 401, 404, 500}
RealOutcomes == {Responded(st, "real") : st \in RealStatuses} \cup {Rejected}

\* new Response(JSON.stringify({ok: true}), {status: 200})
SyntheticOk == Responded(200, "ok_true")
\* new Response(JSON.stringify({handled: true}), {status: 200})
SyntheticHandled == Responded(200, "handled_true")

\* response.ok
ResponseOk(r) == r.status >= 200 /\ r.status <= 299

\* a constructor wrapper that, like the one of getInstance, looks only at
\* event URLs
ConstructorFetch_EventsOnly(url, real) ==
    IF real.kind = "response"
    THEN IF url.analytics /\ url.event /\ real.status \in {404, 400}
         THEN SyntheticOk ELSE real
    ELSE IF url.analytics /\ url.event THEN SyntheticOk ELSE real

\* the wrapper the constructor installs around the browser's fetch
ConstructorFetch(url, real) ==
    IF real.kind = "response"
    THEN IF url.analytics /\ real.status \in {404, 400} THEN SyntheticOk ELSE real
    ELSE IF url.analytics THEN SyntheticOk ELSE real

\* the wrapper getInstance() installs around the constructor's: window.fetch
InstanceFetch(url, real) ==
    LET response == ConstructorFetch(url, real)
    IN  IF url.analytics /\ url.event
        THEN IF response.kind = "response"
             THEN IF ~ResponseOk(response) /\ response.status \in {404, 400}
                  THEN SyntheticHandled ELSE response
             ELSE SyntheticHandled
        ELSE response

\* window.fetch(url) called by the page or by the SDK
WindowFetch(url, real) ==
    /\ fetched' = [url |-> url, real |-> real, got |-> InstanceFetch(url, real),
                   called |-> TRUE]
    /\ UNCHANGED <<tokVars, playerVars, connectionAttempts, localStorage, sessionStorage,
                   envVars, init, login, cb, loggedOut, apiVars, calls, events, asked, muteVars>>

QueryInit ==
    /\ \E t \in QueryTokenSets : Restored(t)
    /\ now = T0
    /\ sdkLoaded = FALSE
    /\ Fresh(0, 0)

QueryNext ==
    \/ AskTokenExpired
    \/ AskLoggedIn
    \/ ClockSecond
    \/ \E url \in Urls, real \in RealOutcomes : WindowFetch(url, real)

QuerySpec == QueryInit /\ [][QueryNext]_vars

\* ------------------------------------------------------- volume and mute
\* (src/integrations/spotify.ts and the record player component)
\* volumes the page passes to setVolume(): the ends of the range, the
\* default, a value between, and one above the range
MuteVolumeInputs == {0, 30, 50, 100, 150}

\* this.player.setVolume(v) as a call in flight
SetVolumeCall(v) == [call |-> "setVolume", volume |-> v]

\* this.player.getCurrentState() awaited by mute()
GetStateCall == [call |-> "getCurrentState", volume |-> NULL]

\* all earlier player calls have settled
Quiet == pending = <<>>

\* setVolume(volumePercent): clamps and awaits player.setVolume
setPlayerVolume(volumePercent) ==
    /\ Len(ops) < MaxVolumeCalls
    /\ IF player = NULL
       THEN UNCHANGED pending
       ELSE pending' = Append(pending, SetVolumeCall(Clamp(volumePercent)))
    /\ ops' = Append(ops, [op |-> "setVolume", volume |-> volumePercent,
                           isMuted |-> FALSE, quiet |-> Quiet])
    /\ UNCHANGED <<volume, previousVolume, isMuted, isMuteDisabled>>
    /\ UNCHANGED <<tokVars, playerVars, connectionAttempts, localStorage, sessionStorage,
                   envVars, init, login, cb, loggedOut, apiVars, calls, events,
                   asked, fetched>>

\* mute() up to its await of getCurrentState(), q being the calls in flight
mute(q) == IF player = NULL THEN q ELSE Append(q, GetStateCall)

\* toggleMute(isMuted): sets the volume at once without awaiting -- 0 and the
\* background mute() when muting, previousVolume when unmuting
toggleMute(muted, q) ==
    IF player = NULL THEN q
    ELSE IF muted THEN mute(Append(q, SetVolumeCall(0)))
    ELSE Append(q, SetVolumeCall(previousVolume))

\* RecordPlayer.handleMuteToggle(newMuteState): nothing when logged out or
\* while the button is disabled; else the UI state changes at once, the
\* button is disabled for 300 ms and toggleMute() runs unawaited
handleMuteToggle(newMuteState) ==
    /\ IF ~isLoggedIn \/ isMuteDisabled
       THEN UNCHANGED muteVars
       ELSE /\ isMuted' = newMuteState
            /\ isMuteDisabled' = TRUE
            /\ pending' = toggleMute(newMuteState, pending)
            /\ ops' = Append(ops, [op |-> "toggleMute", volume |-> NULL,
                                   isMuted |-> newMuteState, quiet |-> Quiet])
            /\ UNCHANGED <<volume, previousVolume>>
    /\ UNCHANGED <<tokVars, playerVars, connectionAttempts, localStorage, sessionStorage,
                   envVars, init, login, cb, loggedOut, apiVars, calls, events,
                   asked, fetched>>

\* onClick={() => handleMuteToggle(!isMuted)}
MuteClick ==
    /\ Len(ops) < MaxVolumeCalls
    /\ handleMuteToggle(~isMuted)

\* setTimeout(() => setIsMuteDisabled(false), 300)
MuteTimeout ==
    /\ isMuteDisabled
    /\ isMuteDisabled' = FALSE
    /\ UNCHANGED <<volume, previousVolume, pending, isMuted, ops>>
    /\ UNCHANGED <<tokVars, playerVars, connectionAttempts, localStorage, sessionStorage,
                   envVars, init, login, cb, loggedOut, apiVars, calls, events,
                   asked, fetched>>

\* the SDK player carries out the oldest setVolume call in flight
VolumeSettles ==
    /\ pending # <<>>
    /\ Head(pending).call = "setVolume"
    /\ volume' = Head(pending).volume
    /\ pending' = Tail(pending)
    /\ UNCHANGED <<previousVolume, isMuted, isMuteDisabled, ops>>
    /\ UNCHANGED <<tokVars, playerVars, connectionAttempts, localStorage, sessionStorage,
                   envVars, init, login, cb, loggedOut, apiVars, calls, events,
                   asked, fetched>>

\* getCurrentState() settles in mute(): previousVolume = 0.5 when there is a
\* state, then setVolume(0); a rejection ends in the catch
MuteStateSettles(state) ==
    /\ pending # <<>>
    /\ Head(pending).call = "getCurrentState"
    /\ previousVolume' = IF state \in {"paused", "playing"}
                         THEN DefaultPreviousVolume ELSE previousVolume
    /\ pending' = IF state = "rejected" \/ player = NULL
                  THEN Tail(pending)
                  ELSE Append(Tail(pending), SetVolumeCall(0))
    /\ UNCHANGED <<volume, isMuted, isMuteDisabled, ops>>
    /\ UNCHANGED <<tokVars, playerVars, connectionAttempts, localStorage, sessionStorage,
                   envVars, init, login, cb, loggedOut, apiVars, calls, events,
                   asked, fetched>>

\* The page with or without an initialized player, logged in or not.
MuteInit ==
    /\ \E t \in StoredTokenSets : Restored(t)
    /\ now = T0
    /\ sdkLoaded = TRUE
    /\ player \in {NULL, 1}
    /\ deviceId = player
    /\ NothingCalled(0, 0)

MuteNext ==
    \/ \E v \in MuteVolumeInputs : setPlayerVolume(v)
    \/ MuteClick
    \/ MuteTimeout
    \/ VolumeSettles
    \/ \E state \in CurrentStates : MuteStateSettles(state)

MuteSpec == MuteInit /\ [][MuteNext]_vars

\* the tokens as persisted
StoredTokens ==
    <<localStorage.spotify_access_token, localStorage.spotify_token_expiration,
      localStorage.spotify_refresh_token>>

\* ================================================================ claims

\* C1: of two initializePlayer() calls, the second made while the first is
\* unresolved, starting from a valid token or an expired one with a refresh
\* token: one SDK client is constructed, and both calls get the same result.
C1_SingleFlight ==
    \A i \in InitIds, j \in InitIds :
        (i \in init[j].during /\ init[i].entry \in {"valid", "expired_rt"})
        => /\ ~(init[i].constructed /\ init[j].constructed)
           /\ (Resolved(i) /\ Resolved(j) => Result(i) = Result(j))

\* C2: at most one SDK client the service constructed is live (constructed
\* and not yet disconnected) in every reachable state.
C2_OneLiveClient ==
    Cardinality({i \in InitIds : init[i].client = "live"}) <= 1

\* C3: handleCallback with a state parameter that is absent or differs from
\* the persisted spotify_auth_state returns false, sends no token request and
\* leaves the in-memory and persisted tokens unchanged.
C3_StateMismatchRejected ==
    [][\A k \in CbIds, code \in Codes, state \in StateParams :
          (HandleCallback(k, code, state)
             /\ (state = NULL \/ state # localStorage.spotify_auth_state))
          => /\ cb'[k].ret = "false"
             /\ ~cb'[k].sent
             /\ UNCHANGED tokVars
             /\ UNCHANGED StoredTokens]_vars

\* a callback was rejected for its state while a state, a verifier and
\* tokens were stored
C3_Witness ==
    \E k \in CbIds :
        /\ cb[k].why = "state_mismatch"
        /\ localStorage.spotify_auth_state # NULL
        /\ localStorage.spotify_code_verifier # NULL
        /\ accessToken # NULL

TermErrors ==
    {"initialization_error", "authentication_error", "account_error",
     "connect_false", "connect_reject", "timeout"}

\* C4: the promise of an initialization resolves true only if 'ready' is its
\* first terminating event, and resolves false when the first terminating
\* event is an error event, a failed connect() or the timeout.
C4_TrueOnlyOnReadyFirst ==
    \A i \in InitIds :
        /\ init[i].res = "true" => init[i].firstTerm = "ready"
        /\ init[i].firstTerm \in TermErrors => init[i].res = "false"

\* an error came first, 'ready' arrived afterwards, the result stayed false
C4_Witness ==
    \E i \in InitIds :
        /\ init[i].firstTerm \in TermErrors
        /\ deviceId = i
        /\ init[i].res = "false"

\* C5: every initializePlayer() call that constructs an SDK client eventually
\* resolves, also when logout() is called while it is pending: the 15 s
\* timer resolves it to false when nothing else does.
C5_InitEventuallyResolves ==
    \A i \in InitIds :
        init[i].constructed ~> (init[i].res \in {"true", "false"})

\* logout() disconnected the player of a pending initialization, and the
\* timer then resolved it
C5_Witness ==
    \E i \in InitIds :
        /\ init[i].client = "disconnected"
        /\ init[i].firstTerm = "timeout"
        /\ init[i].res = "false"

\* C6: account_error during a pending initialization resolves that call
\* false, cancels its timeout and leaves initializationPromise null.
C6_AccountErrorFailsInit ==
    [][\A i \in InitIds :
          (AccountError(i) /\ init[i].res = "pending")
          => /\ init'[i].res = "false"
             /\ ~init'[i].timer
             /\ initializationPromise' = NULL]_vars

\* account_error ended a pending initialization
C6_Witness ==
    \E i \in InitIds :
        /\ init[i].firstTerm = "account_error"
        /\ init[i].res = "false"
        /\ ~init[i].timer
        /\ initializationPromise = NULL

\* the login() call that initializePlayer() call i started
LoginOf(i) == {l \in LoginIds : login[l].caller = i}

\* C7: initializePlayer() with an expired or missing token constructs an SDK
\* client only after a refresh that succeeded; when the refresh fails or no
\* refresh token is held it starts login, returns false and constructs none.
C7_ExpiredTokenPath ==
    \A i \in InitIds :
        /\ init[i].constructed
           => \/ init[i].entry = "valid"
              \/ init[i].entry = "expired_rt" /\ init[i].refreshSent
                   /\ init[i].refreshed = "ok"
        /\ (init[i].entry = "expired_nort" \/ init[i].refreshed = "failed")
           => /\ ~init[i].constructed
              /\ LoginOf(i) # {}
              /\ init[i].pc = "returned" => init[i].ret = "false"

\* C8: after logout() no token is held in memory or storage and isLoggedIn()
\* is false until a handleCallback started after the logout succeeds.
C8_LogoutSticks ==
    loggedOut
    => /\ accessToken = NULL
       /\ refreshToken = NULL
       /\ tokenExpiration = NULL
       /\ StoredTokens = <<NULL, NULL, NULL>>
       /\ ~isLoggedIn

\* a token response that carries access_token and expires_in
Complete(r) ==
    r.kind = "ok" /\ r.body.access_token /\ r.body.expires_in # MISSING

\* C9 as stated: after a successful exchange handleCallback returns true,
\* isLoggedIn() is true and the persisted expiry is completion time plus
\* expires_in * 1000, for every expires_in.
C9_LoggedInForEveryExpiresIn ==
    [][\A k \in CbIds, r \in TokenResponses :
          (CallbackResponse(k, r) /\ Complete(r))
          => /\ cb'[k].ret = "true"
             /\ isLoggedIn'
             /\ localStorage'.spotify_token_expiration = now + r.body.expires_in * 1000]_vars

\* C9 amended: as above, with isLoggedIn() true exactly when expires_in * 1000
\* is at least the 300000 ms skew.
C9_LoggedInIffBeyondSkew ==
    [][\A k \in CbIds, r \in TokenResponses :
          (CallbackResponse(k, r) /\ Complete(r))
          => /\ cb'[k].ret = "true"
             /\ isLoggedIn' <=> (r.body.expires_in * 1000 >= SkewMs)
             /\ localStorage'.spotify_token_expiration = now + r.body.expires_in * 1000]_vars

\* an exchange completed after the clock had moved, and the service is logged in
C9_Witness ==
    \E k \in CbIds :
        /\ cb[k].why = "exchanged"
        /\ now > T0
        /\ isLoggedIn
        /\ localStorage.spotify_token_expiration = now + SkewMs

\* C10: a failed exchange -- non-2xx, network error, or a 2xx body without
\* access_token or expires_in -- makes handleCallback return false with the
\* in-memory and persisted tokens as they were.
C10_FailedExchangeKeepsTokens ==
    [][\A k \in CbIds, r \in TokenResponses :
          (CallbackResponse(k, r) /\ ~Complete(r))
          => /\ cb'[k].ret = "false"
             /\ UNCHANGED tokVars
             /\ UNCHANGED StoredTokens]_vars

C12_LastIssuedWins ==
    \A i \in InitIds, j \in InitIds :
        (i < j /\ i \in init[j].during
           /\ init[i].refreshed = "ok" /\ init[j].refreshed = "ok")
        => /\ accessToken # RefTok(i)
           /\ refreshToken # RefTok(i)
           /\ localStorage.spotify_access_token # RefTok(i)
           /\ localStorage.spotify_refresh_token # RefTok(i)

\* C14: what getOAuthToken hands to the SDK is the current access token,
\* unexpired at that moment; with an expired token nothing is handed over.
C14_HandsCurrentToken ==
    [][\A i \in InitIds :
          GetOAuthToken(i)
          => IF isTokenExpired
             THEN init'[i].token = init[i].token
             ELSE /\ accessToken # NULL
                  /\ init'[i].token = accessToken]_vars

\* C15: authentication_error or account_error during a pending
\* initialization clears all tokens in memory and in storage, and starts no
\* new initialization.
C15_SdkAuthErrorsClearTokens ==
    [][\A i \in InitIds :
          ((AuthenticationError(i) \/ AccountError(i)) /\ init[i].res = "pending")
          => /\ accessToken' = NULL
             /\ refreshToken' = NULL
             /\ tokenExpiration' = NULL
             /\ StoredTokens' = <<NULL, NULL, NULL>>
             /\ \A j \in InitIds : /\ init'[j].pc = init[j].pc
                                    /\ init'[j].constructed = init[j].constructed]_vars

\* C13: where the service finds the token expired while it holds a refresh
\* token -- initializePlayer, the getOAuthToken closure, the login check of
\* getUserPlaylists -- it attempts a refresh before it clears any token.
C13_RefreshBeforeClearing ==
    [][/\ \A i \in InitIds :
            (InitializePlayer(i) /\ ~GuardHit /\ isTokenExpired /\ refreshToken # NULL)
            => /\ init'[i].refreshSent
               /\ UNCHANGED tokVars
       /\ \A i \in InitIds :
            (GetOAuthToken(i) /\ isTokenExpired /\ refreshToken # NULL)
            => UNCHANGED refreshToken
       /\ \A q \in FetchIds :
            (GetUserPlaylists(q) /\ isTokenExpired /\ refreshToken # NULL)
            => UNCHANGED tokVars]_vars

\* no token is held, in memory or in storage
TokensCleared ==
    /\ accessToken = NULL
    /\ refreshToken = NULL
    /\ tokenExpiration = NULL
    /\ StoredTokens = <<NULL, NULL, NULL>>
    /\ ~isLoggedIn

\* C16: a 401 to any REST call -- playlists, saved tracks, the liked-songs
\* track fetch of playPlaylist, start playback -- leaves all tokens cleared
\* and isLoggedIn() false.
C16_Any401ClearsTokens ==
    [][/\ \A q \in FetchIds, n \in DOMAIN PlaylistsResponseList :
            (PlaylistsResponse(q, PlaylistsResponseList[n])
               /\ PlaylistsResponseList[n].status = 401)
            => TokensCleared'
       /\ \A q \in FetchIds, n \in DOMAIN TracksResponseList :
            (SavedTracksResponse(q, TracksResponseList[n])
               /\ TracksResponseList[n].status = 401)
            => TokensCleared'
       /\ \A p \in PlayIds, n \in DOMAIN TracksResponseList :
            (PlayTracksResponse(p, TracksResponseList[n])
               /\ TracksResponseList[n].status = 401)
            => TokensCleared'
       /\ \A p \in PlayIds, n \in DOMAIN PlayResponseList :
            (PlayPutResponse(p, PlayResponseList[n])
               /\ PlayResponseList[n].status = 401)
            => TokensCleared']_vars

\* C17: getUserPlaylists() never throws, and a 401 to the playlists request
\* or to the saved-tracks request clears all tokens and makes it return [].
C17_ListEmptyOn401 ==
    [][/\ \A q \in FetchIds : ~pl'[q].threw
       /\ \A q \in FetchIds, n \in DOMAIN PlaylistsResponseList :
            (PlaylistsResponse(q, PlaylistsResponseList[n])
               /\ PlaylistsResponseList[n].status = 401)
            => /\ TokensCleared'
               /\ pl'[q].pc = "returned"
               /\ pl'[q].ret = <<>>
       /\ \A q \in FetchIds, n \in DOMAIN TracksResponseList :
            (SavedTracksResponse(q, TracksResponseList[n])
               /\ TracksResponseList[n].status = 401)
            => /\ TokensCleared'
               /\ pl'[q].pc = "returned"
               /\ pl'[q].ret = <<>>]_vars

\* C18: when the playlists request succeeded, getUserPlaylists() returns the
\* liked-songs entry followed by the playlists in order if the saved-tracks
\* request succeeded, and exactly the playlists if that request failed.
C18_LikedSongsFirstOrAbsent ==
    \A q \in FetchIds :
        pl[q].pc = "returned"
        => /\ pl[q].tracks = "ok"
              => /\ Len(pl[q].ret) = Len(pl[q].items) + 1
                 /\ pl[q].ret[1].type = "liked-songs"
                 /\ Tail(pl[q].ret) = pl[q].items
           /\ pl[q].tracks \in {"401", "failed"}
              => /\ pl[q].ret = pl[q].items
                 /\ \A n \in DOMAIN pl[q].ret : pl[q].ret[n].type # "liked-songs"

\* both requests succeeded and the result lists Liked Songs before two playlists
C18_Witness ==
    \E q \in FetchIds :
        /\ pl[q].pc = "returned"
        /\ pl[q].tracks = "ok"
        /\ Len(pl[q].items) = 2
        /\ pl[q].ret = <<LikedSongs, Playlist(1), Playlist(2)>>

\* C19: playPlaylist(id) with deviceId null sends no request and throws
\* nothing.
C19_NoDeviceNoRequest ==
    [][\A p \in PlayIds, id \in PlayableIds :
          (PlayPlaylist(p, id) /\ deviceId = NULL)
          => /\ play'[p].pc = "returned"
             /\ ~play'[p].sentGet
             /\ ~play'[p].sentPut
             /\ ~play'[p].threw]_vars

\* playPlaylist returned at once after a device had been ready and was lost
C19_Witness ==
    \E p \in PlayIds, i \in InitIds :
        /\ init[i].res = "true"
        /\ deviceId = NULL
        /\ play[p].pc = "returned"
        /\ ~play[p].sentGet
        /\ ~play[p].sentPut
        /\ ~play[p].threw

\* C20: playPlaylist('liked-songs') whose track fetch succeeds with zero
\* items sends no start-playback request and throws nothing.
C20_NoTracksNoPlayback ==
    [][\A p \in PlayIds, n \in DOMAIN TracksResponseList :
          LET r == TracksResponseList[n]
          IN  (PlayTracksResponse(p, r) /\ r.kind = "ok" /\ Len(r.body) = 0)
              => /\ play'[p].pc = "returned"
                 /\ ~play'[p].sentPut
                 /\ ~play'[p].threw]_vars

\* a liked-songs play that fetched the tracks and ended there
C20_Witness ==
    \E p \in PlayIds :
        /\ play[p].id = LikedSongsId
        /\ play[p].sentGet
        /\ play[p].pc = "returned"
        /\ ~play[p].sentPut
        /\ ~play[p].threw

\* C21: every non-2xx answer inside playPlaylist -- to the PUT of a playlist,
\* to the PUT of the liked songs, or to the liked-songs track fetch -- makes
\* the call throw an error whose message carries the HTTP status.
C21_NonOkThrowsStatus ==
    [][/\ \A p \in PlayIds, n \in DOMAIN PlayResponseList :
            (PlayPutResponse(p, PlayResponseList[n]) /\ PlayResponseList[n].kind = "status")
            => (play'[p].threw /\ PlayResponseList[n].status \in play'[p].message)
       /\ \A p \in PlayIds, n \in DOMAIN TracksResponseList :
            (PlayTracksResponse(p, TracksResponseList[n]) /\ TracksResponseList[n].kind = "status")
            => (play'[p].threw /\ TracksResponseList[n].status \in play'[p].message)]_vars

\* the PUT of a playlist was answered 404 and the call threw, naming 404
C21_Witness ==
    \E p \in PlayIds :
        /\ play[p].threw
        /\ play[p].sentPut
        /\ play[p].id # LikedSongsId
        /\ 404 \in play[p].message

\* C22: the classification the component shows is determined by the HTTP
\* status of the failed play request -- 403 Premium required, 404 content
\* not found -- whatever text the response body contains.
C22_ClassifiedByStatus ==
    [][\A p \in PlayIds, n \in DOMAIN PlayResponseList :
          PlayPutResponse(p, PlayResponseList[n])
          => /\ PlayResponseList[n].status = 403 => play'[p].shown = "premium_required"
             /\ PlayResponseList[n].status = 404 => play'[p].shown = "not_found"]_vars

\* C23: isTokenExpired() at the boundary of the 300000 ms skew: a token
\* expiring 301000 ms from now is not expired, one expiring 299000 ms from
\* now is expired, and a missing expiration counts as expired.
C23_ExpiryBoundary ==
    asked.fn = "isTokenExpired"
    => /\ asked.exp = asked.at + 301000 => ~asked.ret
       /\ asked.exp = asked.at + 299000 => asked.ret
       /\ asked.exp = NULL => asked.ret

\* isTokenExpired() was asked 299000 ms before the expiration and said yes
C23_Witness ==
    /\ asked.fn = "isTokenExpired"
    /\ asked.exp = asked.at + 299000
    /\ asked.ret

C25_VerifierAndStateConsumed ==
    [][\A k \in CbIds, n \in DOMAIN TokenResponseList :
          (CallbackResponse(k, TokenResponseList[n]) /\ cb'[k].ret = "true")
          => /\ localStorage'.spotify_code_verifier = NULL
             /\ localStorage'.spotify_auth_state = NULL
             /\ sessionStorage' = NULL]_vars

\* C26: the SDK's not_ready event sets deviceId to null and changes nothing
\* else -- the player handle, its listeners, its promise and timer, the
\* tokens and the state callback stay as they were -- and a later ready
\* event on the same client sets a device id again without a new
\* initialization.
C26_NotReadyOnlyDropsDevice ==
    [][\A i \in InitIds :
          /\ NotReady(i)
             => /\ deviceId' = NULL
                /\ [init' EXCEPT ![i].lost = init[i].lost] = init
                /\ UNCHANGED <<tokVars, player, stateCallback, initializationPromise,
                               connectionAttempts, localStorage, sessionStorage>>
          /\ (Ready(i) /\ init[i].lost)
             => /\ deviceId' = i
                /\ player' = player
                /\ \A j \in InitIds : /\ init'[j].pc = init[j].pc
                                       /\ init'[j].constructed = init[j].constructed
                                       /\ init'[j].client = init[j].client]_vars

\* the client was ready, its not_ready dropped the device id, and a further
\* ready event set the device id again, with one initialization made
C26_Witness ==
    \E i \in InitIds :
        /\ init[i].lost
        /\ deviceId = i
        /\ player = i
        /\ init[i].res = "true"
        /\ \A j \in InitIds : j # i => init[j].pc = "idle"

\* C27: logout() sets the force-login flag; the first login() after a
\* logout adds show_dialog=true to the authorization URL and removes the
\* flag; a login() with no logout since the previous login adds no
\* show_dialog.  The flag is set by logout() only and removed by login()
\* only, and a login() shows the dialog exactly when it finds the flag.
C27_ForceLoginOncePerLogout ==
    [][/\ Logout => localStorage'.spotify_force_login
       /\ \A l \in LoginIds :
            LoginFinish(l) => /\ login'[l].show_dialog = localStorage.spotify_force_login
                              /\ ~localStorage'.spotify_force_login
       /\ (localStorage.spotify_force_login /\ ~localStorage'.spotify_force_login)
            => \E l \in LoginIds : LoginFinish(l)
       /\ (~localStorage.spotify_force_login /\ localStorage'.spotify_force_login)
            => (loggedOut' /\ localStorage'.spotify_just_logged_out /\ player' = NULL)]_vars

\* after a logout, a login() added show_dialog and removed the flag
C27_Witness ==
    \E l \in LoginIds :
        /\ login[l].pc = "done"
        /\ login[l].show_dialog
        /\ ~localStorage.spotify_force_login
        /\ loggedOut

\* C28: logout() is safe when no SDK client was ever created and is
\* idempotent: it leaves no tokens, no player, no device id and no
\* initialization in flight, a logout() made in the state a logout() left
\* changes nothing, and an existing client is disconnected exactly once.
C28_LogoutIdempotent ==
    [][Logout =>
         /\ accessToken' = NULL /\ refreshToken' = NULL /\ tokenExpiration' = NULL
         /\ player' = NULL /\ deviceId' = NULL /\ initializationPromise' = NULL
         /\ player = NULL => init' = init
         /\ player # NULL => /\ init'[player].disconnects = 1
                              /\ init'[player].client = "disconnected"
         /\ \A i \in InitIds : init'[i].disconnects <= 1
         /\ (/\ accessToken = NULL /\ refreshToken = NULL /\ tokenExpiration = NULL
             /\ player = NULL /\ deviceId = NULL /\ initializationPromise = NULL
             /\ connectionAttempts = 0
             /\ localStorage = [ClearedStorage(localStorage) EXCEPT
                                   !.spotify_force_login = TRUE,
                                   !.spotify_just_logged_out = TRUE])
            => UNCHANGED <<tokVars, playerVars, connectionAttempts, localStorage,
                           sessionStorage, init>>]_vars

\* the page made two calls, both logout(), with no SDK client ever created
C28_Witness ==
    /\ loggedOut
    /\ calls = 0
    /\ \A i \in InitIds : init[i].pc = "idle"
    /\ \A l \in LoginIds : login[l].pc = "idle"
    /\ \A k \in CbIds : cb[k].pc = "idle"
    /\ \A f \in RefreshIds : rf[f].pc = "idle"
    /\ \A q \in FetchIds : pl[q].pc = "idle"
    /\ \A p \in PlayIds : play[p].pc = "idle"
    /\ \A c \in ControlIds : ctl[c].pc = "idle"
    /\ player = NULL /\ accessToken = NULL /\ deviceId = NULL

\* C29: togglePlayback, nextTrack, previousTrack and setVolume never throw:
\* with no player they return without an SDK call, and when the SDK call
\* rejects the error is caught; the player handle, the device id, the
\* tokens and the initialization guard are unchanged throughout.
C29_ControlsNeverThrow ==
    [][\A c \in ControlIds :
          (\/ togglePlayback(c) \/ nextTrack(c) \/ previousTrack(c)
           \/ \E v \in VolumeInputs : setVolume(c, v)
           \/ \E st \in CurrentStates : CurrentStateSettles(c, st)
           \/ \E rejected \in BOOLEAN : CommandSettles(c, rejected))
          => /\ ~ctl'[c].threw
             /\ UNCHANGED <<player, deviceId, tokVars, initializationPromise>>
             /\ (player = NULL /\ ctl[c].pc = "idle")
                => (ctl'[c].pc = "returned" /\ ctl'[c].sent = <<>>)]_vars

\* a control call whose SDK command rejected has returned, the error caught
C29_Witness ==
    \E c \in ControlIds :
        /\ ctl[c].pc = "returned"
        /\ ctl[c].caught
        /\ ~ctl[c].threw
        /\ player # NULL

\* C30: through window.fetch as the service wraps it, a request to the
\* analytics host that answers 400 or 404, or that fails at network level,
\* gives its caller a synthetic 200 response; a request to any other URL
\* gets its real response, or its real failure, unchanged.
C30_AnalyticsFailuresSwallowed ==
    fetched.called
    => /\ (fetched.url.analytics
           /\ (fetched.real.kind = "rejected" \/ fetched.real.status \in {400, 404}))
          => /\ fetched.got.kind = "response"
             /\ fetched.got.status = 200
             /\ fetched.got.body # "real"
       /\ ~fetched.url.analytics => fetched.got = fetched.real

\* an analytics URL without 'event' answered 404 and the caller got a 200
C30_Witness ==
    /\ fetched.called
    /\ fetched.url.analytics
    /\ ~fetched.url.event
    /\ fetched.real.status = 404
    /\ fetched.got.status = 200

\* C31: playPlaylist starts the liked songs only with the explicit list of
\* the track URIs it fetched, never with a context URI, and starts any other
\* id only with the context URI spotify:playlist:<id>; the request always
\* targets the deviceId the service holds when it is sent.
C31_PlayRequestShape ==
    [][/\ \A p \in PlayIds, n \in DOMAIN TracksResponseList :
            (PlayTracksResponse(p, TracksResponseList[n]) /\ play'[p].sentPut)
            => /\ play[p].id = LikedSongsId
               /\ play'[p].put.context_uri = NULL
               /\ play'[p].put.uris = TracksResponseList[n].body
               /\ Len(play'[p].put.uris) > 0
               /\ play'[p].put.device = deviceId
       /\ \A p \in PlayIds, id \in PlayableIds :
            (PlayPlaylist(p, id) /\ play'[p].sentPut)
            => /\ id # LikedSongsId
               /\ play'[p].put.context_uri = 200 + id
               /\ play'[p].put.uris = <<>>
               /\ play'[p].put.device = deviceId
       /\ \A p \in PlayIds :
            play'[p].sentPut
            => (play'[p].put.context_uri = NULL <=> play'[p].id = LikedSongsId)]_vars

\* the liked songs were started with the two fetched URIs on the held device
C31_Witness ==
    \E p \in PlayIds :
        /\ play[p].id = LikedSongsId
        /\ play[p].sentPut
        /\ play[p].put.uris = <<Uri(1), Uri(2)>>
        /\ play[p].put.context_uri = NULL
        /\ play[p].put.device # NULL

\* C32: whenever a promise returned by initializePlayer has resolved, true
\* or false, by any path, the guard no longer holds it, so the next
\* initializePlayer() call starts a fresh initialization.
C32_GuardNeverHoldsResolved ==
    \A i \in InitIds :
        init[i].res \in {"true", "false"} => initializationPromise # i

\* C33: the guard of an in-flight initialization is never cleared by a
\* timer or SDK event of another, earlier initialization (one that logout()
\* interrupted, or one that already resolved): the 15 s timeout and the
\* late events of the earlier one leave initializationPromise set while
\* the newer initialization is unresolved.
C33_EarlierInitKeepsOffGuard ==
    [][\A i, j \in InitIds :
          (/\ i # j
           /\ initializationPromise = j
           /\ init[j].res = "pending"
           /\ \/ InitTimeout(i) \/ InitializationError(i) \/ AuthenticationError(i)
              \/ AccountError(i) \/ Ready(i) \/ NotReady(i) \/ GetOAuthToken(i)
              \/ \E o \in {"connect_false", "connect_reject"} : ConnectSettles(i, o))
          => initializationPromise' = j]_vars

\* C34: deviceId is non-null only if the initialization of the current
\* player resolved true (and no not_ready or logout() came since): a ready
\* event arriving after that initialization resolved false, or after
\* logout(), does not set deviceId.
C34_DeviceOnlyAfterTrue ==
    deviceId # NULL
    => /\ player # NULL
       /\ deviceId = player
       /\ init[player].res = "true"

\* C35: after every completed operation the persisted tokens equal the
\* in-memory tokens -- the stored access token, refresh token and expiry
\* equal accessToken, refreshToken and tokenExpiration, a key being absent
\* exactly when the field is null.  Stated for the operation the claim
\* singles out: a code exchange answered 2xx with an access token and an
\* expires_in, with or without a refresh_token.
C35_StoredEqualsMemory ==
    [][\A k \in CbIds, n \in DOMAIN TokenResponseList :
          (/\ CallbackResponse(k, TokenResponseList[n])
           /\ TokenResponseList[n].kind = "ok"
           /\ TokenResponseList[n].body.access_token
           /\ TokenResponseList[n].body.expires_in # MISSING)
          => /\ localStorage'.spotify_access_token = accessToken'
             /\ localStorage'.spotify_token_expiration = tokenExpiration'
             /\ localStorage'.spotify_refresh_token = refreshToken']_vars

\* C36: for every sequence of login() calls, two calls overlapping at
\* login()'s await included, the code_challenge put in the authorization URL
\* at the redirect is derived from the verifier persisted at that moment (the
\* one handleCallback() will read and send) and the URL's state equals the
\* persisted state.
C36_UrlMatchesPersisted ==
    [][\A l \in LoginIds :
          LoginFinish(l)
          => /\ login'[l].challenge =
                   (IF localStorage'.spotify_code_verifier # NULL
                    THEN localStorage'.spotify_code_verifier
                    ELSE sessionStorage')
             /\ login'[l].state = localStorage'.spotify_auth_state]_vars

\* C37: a callback is consumed at most once -- after handleCallback() has
\* returned true, calling it again with the same code and state returns
\* false and sends no token request.
C37_CallbackConsumedOnce ==
    [][\A k \in CbIds, code \in Codes, state \in StateParams :
          (/\ HandleCallback(k, code, state)
           /\ \E k0 \in CbIds : /\ cb[k0].ret = "true"
                                 /\ cb[k0].code = code
                                 /\ cb[k0].state = state)
          => /\ cb'[k].pc = "returned"
             /\ cb'[k].ret = "false"
             /\ ~cb'[k].sent]_vars

\* a second call with the parameters of one that returned true was refused
C37_Witness ==
    \E k0, k \in CbIds :
        /\ k0 < k
        /\ cb[k0].ret = "true"
        /\ cb[k].pc = "returned"
        /\ cb[k].code = cb[k0].code
        /\ cb[k].state = cb[k0].state
        /\ cb[k].why = "state_mismatch"

\* the page's volume calls were setVolume(v), toggleMute(true) and
\* toggleMute(false), each made after the earlier ones had settled
SetMuteUnmute ==
    /\ player # NULL
    /\ Len(ops) = 3
    /\ ops[1].op = "setVolume" /\ ops[1].volume \in 0..100
    /\ ops[2].op = "toggleMute" /\ ops[2].isMuted
    /\ ops[3].op = "toggleMute" /\ ~ops[3].isMuted
    /\ \A n \in 1..3 : ops[n].quiet

\* C38: unmuting restores the pre-mute volume -- after setVolume(v),
\* toggleMute(true), toggleMute(false) the player's volume is v, for every v
\* in [0, 1].
C38_UnmuteRestoresVolume ==
    (SetMuteUnmute /\ Quiet) => volume = ops[1].volume

\* the page's last two volume calls were toggleMute(true) and toggleMute(false)
MutedThenUnmuted ==
    /\ player # NULL
    /\ Len(ops) >= 2
    /\ ops[Len(ops) - 1].op = "toggleMute" /\ ops[Len(ops) - 1].isMuted
    /\ ops[Len(ops)].op = "toggleMute" /\ ~ops[Len(ops)].isMuted

\* C39: toggleMute(true) followed by toggleMute(false) ends unmuted -- once
\* all pending SDK calls have completed the player's volume is the unmuted
\* volume and not 0, however long the background mute() step takes.
C39_UnmuteWins ==
    (MutedThenUnmuted /\ Quiet) => (volume = previousVolume /\ volume # 0)

====
